---- MODULE Spec2Model ----
(***************************************************************************)
(* A model of the async Comlink client (src/src/async_comlink.py).         *)
(*                                                                         *)
(* Strings are sequences of one-character strings, so that rstrip,         *)
(* urlparse, upper() and f-string formatting are computed character by     *)
(* character.  Python values are tagged records [t, v]; the tag decides    *)
(* truthiness and str() the way the interpreter does.                      *)
(***************************************************************************)
EXTENDS Integers, Sequences, FiniteSets, TLC

VARIABLES
    ctor,      \* the constructor call: its arguments and its outcome
    url,       \* self.url, a character sequence, or Unset before it is assigned
    session,   \* self.session: Unset, Handle (a ClientSession) or NoneRef
    closed,    \* ClientSession.closed of the session created at line 39
    releases,  \* how many times the connection context was released
    alive,     \* FALSE once __del__ has run
    call       \* per task: the method call it is running or has last run

vars == <<ctor, url, session, closed, releases, alive, call>>

-----------------------------------------------------------------------------
(* Python values *)

None == [t |-> "none", v |-> 0]
Omitted == [t |-> "omitted", v |-> 0]
PStr(s) == [t |-> "str", v |-> s]
PInt(n) == [t |-> "int", v |-> n]
PBool(b) == [t |-> "bool", v |-> b]
PDict(d) == [t |-> "dict", v |-> d]
PList(l) == [t |-> "list", v |-> l]

\* bool(x): None, "", 0, False, {} and [] are falsy
Truthy(x) ==
    CASE x.t = "none" -> FALSE
      [] x.t = "str" -> x.v # <<>>
      [] x.t = "int" -> x.v # 0
      [] x.t = "bool" -> x.v
      [] x.t = "dict" -> DOMAIN x.v # {}
      [] x.t = "list" -> x.v # <<>>

\* a parameter with a default value: the default is bound when the argument is omitted
Bind(arg, default) == IF arg.t = "omitted" THEN default ELSE arg

Digits == <<"0", "1", "2", "3", "4", "5", "6", "7", "8", "9">>
Lowers == <<"a", "b", "c", "d", "e", "f", "g", "h", "i", "j", "k", "l", "m",
            "n", "o", "p", "q", "r", "s", "t", "u", "v", "w", "x", "y", "z">>
Uppers == <<"A", "B", "C", "D", "E", "F", "G", "H", "I", "J", "K", "L", "M",
            "N", "O", "P", "Q", "R", "S", "T", "U", "V", "W", "X", "Y", "Z">>

IndexOf(c, seq) ==
    IF \E i \in DOMAIN seq : seq[i] = c
    THEN CHOOSE i \in DOMAIN seq : seq[i] = c /\ \A j \in 1..(i - 1) : seq[j] # c
    ELSE 0

IsDigit(c) == IndexOf(c, Digits) # 0
IsAlpha(c) == IndexOf(c, Lowers) # 0 \/ IndexOf(c, Uppers) # 0

LowerChar(c) == IF IndexOf(c, Uppers) # 0 THEN Lowers[IndexOf(c, Uppers)] ELSE c
UpperChar(c) == IF IndexOf(c, Lowers) # 0 THEN Uppers[IndexOf(c, Lowers)] ELSE c
\* str.lower() and str.upper()
Lower(s) == [i \in DOMAIN s |-> LowerChar(s[i])]
Upper(s) == [i \in DOMAIN s |-> UpperChar(s[i])]

RECURSIVE StrOfNat(_)
\* str(n) of a non-negative int: its decimal digits
StrOfNat(n) ==
    IF n < 10 THEN <<Digits[n + 1]>>
    ELSE StrOfNat(n \div 10) \o <<Digits[(n % 10) + 1]>>

RECURSIVE IntOf(_)
\* int(s) of a string of decimal digits
IntOf(s) ==
    IF s = <<>> THEN 0
    ELSE 10 * IntOf(SubSeq(s, 1, Len(s) - 1)) + (IndexOf(s[Len(s)], Digits) - 1)

\* str(x) and f"{x}"
Str(x) ==
    CASE x.t = "none" -> <<"N", "o", "n", "e">>
      [] x.t = "str" -> x.v
      [] x.t = "int" -> StrOfNat(x.v)
      [] x.t = "bool" -> IF x.v THEN <<"T", "r", "u", "e">>
                         ELSE <<"F", "a", "l", "s", "e">>

RECURSIVE RStrip(_, _)
\* s.rstrip(c)
RStrip(s, c) ==
    IF s # <<>> /\ s[Len(s)] = c THEN RStrip(SubSeq(s, 1, Len(s) - 1), c) ELSE s

\* s.find(c, start) with 1-based positions: 0 when c does not occur from start on
Find(s, c, start) ==
    IF \E i \in start..Len(s) : s[i] = c
    THEN CHOOSE i \in start..Len(s) : s[i] = c /\ \A j \in start..(i - 1) : s[j] # c
    ELSE 0

\* s.rfind(c): 0 when c does not occur
RFind(s, c) ==
    IF \E i \in DOMAIN s : s[i] = c
    THEN CHOOSE i \in DOMAIN s : s[i] = c /\ \A j \in (i + 1)..Len(s) : s[j] # c
    ELSE 0

From(s, i) == SubSeq(s, i, Len(s))

-----------------------------------------------------------------------------
(* urllib.parse.urlparse, as far as __init__ reads its result *)

SchemeChars == {Lowers[i] : i \in DOMAIN Lowers} \cup {Uppers[i] : i \in DOMAIN Uppers}
               \cup {Digits[i] : i \in DOMAIN Digits} \cup {"+", "-", "."}

\* the end of the network location: the first of "/", "?", "#" from start on
NetlocEnd(s, start) ==
    LET hits == {Find(s, c, start) : c \in {"/", "?", "#"}} \ {0}
    IN  IF hits = {} THEN Len(s) + 1
        ELSE CHOOSE d \in hits : \A e \in hits : d <= e

\* urlsplit: [scheme, netloc, path]
UrlParse(s) ==
    LET i == Find(s, ":", 1)
        hasScheme == /\ i > 1
                     /\ IsAlpha(s[1])
                     /\ \A j \in 1..(i - 1) : s[j] \in SchemeChars
        scheme == IF hasScheme THEN Lower(SubSeq(s, 1, i - 1)) ELSE <<>>
        rest == IF hasScheme THEN From(s, i + 1) ELSE s
        hasNetloc == Len(rest) >= 2 /\ rest[1] = "/" /\ rest[2] = "/"
        e == NetlocEnd(rest, 3)
    IN  [scheme |-> scheme,
         netloc |-> IF hasNetloc THEN SubSeq(rest, 3, e - 1) ELSE <<>>,
         path |-> IF hasNetloc THEN From(rest, e) ELSE rest]

\* _hostinfo: the text after the last "@", split at its first ":"
HostInfo(netloc) ==
    LET hostinfo == From(netloc, RFind(netloc, "@") + 1)
        c == Find(hostinfo, ":", 1)
    IN  [hostname |-> IF c = 0 THEN hostinfo ELSE SubSeq(hostinfo, 1, c - 1),
         port |-> IF c = 0 THEN <<>> ELSE From(hostinfo, c + 1)]

\* ParseResult.hostname: lower-cased, None when empty
Hostname(p) ==
    LET h == HostInfo(p.netloc).hostname
    IN  IF h = <<>> THEN None ELSE PStr(Lower(h))

MaxPort == 65535

\* ParseResult.port: None when absent, an int, or ValueError
Port(p) ==
    LET t == HostInfo(p.netloc).port
    IN  IF t = <<>> THEN [err |-> "", v |-> None]
        ELSE IF \E k \in DOMAIN t : ~IsDigit(t[k]) THEN [err |-> "ValueError", v |-> None]
        ELSE IF IntOf(t) > MaxPort THEN [err |-> "ValueError", v |-> None]
        ELSE [err |-> "", v |-> PInt(IntOf(t))]

-----------------------------------------------------------------------------
(* Comlink.__init__ *)

Unset == "unset"
Handle == "ClientSession"
NoneRef == "None"

Http == <<"h", "t", "t", "p">>
Https == <<"h", "t", "t", "p", "s">>
SchemeSep == <<":", "/", "/">>
Colon == <<":">>

DefaultUrl == Http \o SchemeSep \o <<"l", "o", "c", "a", "l", "h", "o", "s", "t">>
              \o Colon \o <<"3", "0", "0", "0">>
DefaultPort == 3000

\* lines 23-27: the URL from host and port
MutHostUrl(host, port) ==
    LET protocol == IF port = PInt(80) THEN Https ELSE Http
        p == IF Truthy(port) THEN port
             ELSE IF protocol = Https THEN PInt(443) ELSE PInt(80)
    IN  protocol \o SchemeSep \o Str(host) \o Colon \o Str(p)

HostUrl(host, port) ==
    LET protocol == IF port = PInt(443) THEN Https ELSE Http
        p == IF Truthy(port) THEN port
             ELSE IF protocol = Https THEN PInt(443) ELSE PInt(80)
    IN  protocol \o SchemeSep \o Str(host) \o Colon \o Str(p)

\* line 36: the default port of a scheme
DefaultPortOf(scheme) == IF scheme = Https THEN PInt(443) ELSE PInt(80)

\* line 31: the check that the parsed URL has a scheme
MutSchemeMissing(parsed) == parsed.scheme = <<>> /\ parsed.netloc = <<>>

SchemeMissing(parsed) == ~Truthy(PStr(parsed.scheme))

\* lines 30-37: [err, url] from the URL string; url is Unset when line 34 was not reached
UrlFromString(u) ==
    LET stripped == RStrip(u, "/")
        parsed == UrlParse(stripped)
        port == Port(parsed)
    IN  IF SchemeMissing(parsed) THEN [err |-> "ValueError", url |-> Unset]
        ELSE IF port.err # "" THEN [err |-> port.err, url |-> stripped]
        ELSE IF ~Truthy(port.v)
             THEN [err |-> "",
                   url |-> parsed.scheme \o SchemeSep \o Str(Hostname(parsed))
                           \o Colon \o Str(DefaultPortOf(parsed.scheme))]
        ELSE [err |-> "", url |-> stripped]

\* lines 23-37
BaseUrl(a) ==
    LET u == Bind(a.url, PStr(DefaultUrl))
        host == Bind(a.host, None)
        port == Bind(a.port, PInt(DefaultPort))
    IN  IF Truthy(host) THEN [err |-> "", url |-> HostUrl(host, port)]
        ELSE UrlFromString(u.v)

\* whether a base URL is an origin: scheme, host and port and nothing else
IsOrigin(u) ==
    LET p == UrlParse(u)
        hi == HostInfo(p.netloc)
    IN  /\ p.scheme # <<>>
        /\ p.path = <<>>
        /\ hi.hostname # <<>>
        /\ hi.hostname = p.netloc \/ hi.hostname \o Colon \o hi.port = p.netloc
        /\ hi.port # <<>> => \A k \in DOMAIN hi.port : IsDigit(hi.port[k])

\* line 39, aiohttp.ClientSession(base_url=...): the outcomes an installed aiohttp
\* can produce; versions differ on whether a base URL must be an origin
SessionOutcomes(u) == IF IsOrigin(u) THEN {""} ELSE {"", "AssertionError"}

\* Comlink.__init__
ComlinkInit ==
    /\ ctor.status = "new"
    /\ LET r == BaseUrl(ctor.args)
       IN  \/ /\ r.err # ""
              /\ ctor' = [ctor EXCEPT !.status = r.err]
              /\ url' = r.url
              /\ UNCHANGED session
           \/ /\ r.err = ""
              /\ \E o \in SessionOutcomes(r.url) :
                    /\ ctor' = [ctor EXCEPT !.status = IF o = "" THEN "ok" ELSE o]
                    /\ url' = r.url
                    /\ session' = IF o = "" THEN Handle ELSE Unset
    /\ UNCHANGED <<closed, releases, alive, call>>

-----------------------------------------------------------------------------
(* calls in flight *)

NumTasks == 2
Tasks == 1..NumTasks

NoResult == [err |-> "none", v |-> None]
NoCall == [pc |-> "idle", m |-> "", args |-> <<>>, phase |-> "", trace |-> <<>>,
           result |-> NoResult, atStart |-> Unset, invoked |-> FALSE]

\* a coroutine that starts running on task t: atStart remembers self.session then
Begin(m, args) ==
    [pc |-> "run", m |-> m, args |-> args, phase |-> "real", trace |-> <<>>,
     result |-> NoResult, atStart |-> session, invoked |-> FALSE]

Raise(c, e) == [c EXCEPT !.pc = "done", !.result = [err |-> e, v |-> None]]
Return(c, v) == [c EXCEPT !.pc = "done", !.result = [err |-> "", v |-> v]]

Request(verb, endpoint, json) == [verb |-> verb, endpoint |-> endpoint, json |-> json]
Sent(r) == [k |-> "send", x |-> r]
Received(r) == [k |-> "recv", x |-> r]

\* d[k] = v on a dict
SetItem(d, k, v) == PDict((k :> v) @@ d.v)
HasKey(d, k) == d.t = "dict" /\ k \in DOMAIN d.v

\* a task may start a coroutine on the client when it is not inside one
CanCall(t) ==
    /\ ctor.status = "ok"
    /\ alive
    /\ call[t].pc \in {"idle", "done"}

\* self.session.post(...) / self.session.get(...): on None the attribute lookup fails,
\* a closed ClientSession refuses, an open one sends the request and suspends
MutSessionRequest(c, r) ==
    IF session = NoneRef THEN Raise(c, "AttributeError")
    ELSE IF closed THEN Raise(c, "RuntimeError")
    ELSE IF \E u \in Tasks : call[u].pc = "await" THEN Raise(c, "Busy")
    ELSE [c EXCEPT !.pc = "await", !.trace = Append(@, Sent(r))]

SessionRequest(c, r) ==
    IF session = NoneRef THEN Raise(c, "AttributeError")
    ELSE IF closed THEN Raise(c, "RuntimeError")
    ELSE [c EXCEPT !.pc = "await", !.trace = Append(@, Sent(r))]

\* lines 61-62: except Exception as e: raise e
MutPostExcept(c, e) == Return(c, None)

MutRetryExcept(c, e) ==
    IF Len(c.trace) = 2
    THEN [c EXCEPT !.pc = "await", !.trace = Append(@, c.trace[1])]
    ELSE Raise(c, e)

PostExcept(c, e) == Raise(c, e)

\* _post up to its first suspension (line 58); what session.post raises passes
\* through the except clause
Post(c, endpoint, payload) ==
    LET r == SessionRequest(c, Request("POST", endpoint, payload))
    IN  IF r.pc = "done" THEN PostExcept(c, r.result.err) ELSE r

-----------------------------------------------------------------------------
(* the payload each endpoint method builds *)

\* get_player, lines 119-126
MutPlayerPayload(allycode, playerId, enums) ==
    LET base == PDict([payload |-> PDict(<<>>), enums |-> enums])
        a == IF Truthy(allycode)
             THEN SetItem(base.v.payload, "allyCode", PStr(Str(allycode)))
             ELSE base.v.payload
        inner == IF Truthy(playerId) THEN SetItem(a, "playerId", PStr(Str(playerId)))
                 ELSE a
    IN  SetItem(base, "payload", inner)

PlayerPayload(allycode, playerId, enums) ==
    LET base == PDict([payload |-> PDict(<<>>), enums |-> enums])
        inner == IF Truthy(playerId)
                 THEN SetItem(base.v.payload, "playerId", PStr(Str(playerId)))
                 ELSE IF Truthy(allycode)
                 THEN SetItem(base.v.payload, "allyCode", PStr(Str(allycode)))
                 ELSE base.v.payload
    IN  SetItem(base, "payload", inner)

\* get_player_arena, lines 147-155
PlayerArenaPayload(allycode, playerId, player_details_only, enums) ==
    LET base == PDict([payload |-> PDict(<<>>), enums |-> enums])
        inner == IF Truthy(allycode)
                 THEN SetItem(base.v.payload, "allyCode", PStr(Str(allycode)))
                 ELSE IF Truthy(playerId)
                 THEN SetItem(base.v.payload, "playerId", PStr(Str(playerId)))
                 ELSE base.v.payload
    IN  SetItem(base, "payload", SetItem(inner, "playerDetailsOnly", player_details_only))

\* get_metadata, lines 172-176
MetadataPayload(enums, clientSpecs) ==
    LET base == PDict([enums |-> enums])
    IN  IF Truthy(clientSpecs) /\ clientSpecs.t = "dict"
        THEN SetItem(base, "payload", PDict([clientSpecs |-> clientSpecs]))
        ELSE base

\* get_localization, lines 217-226
LocalizationPayload(id, unzip, locale, enums) ==
    LET full == IF Truthy(locale) THEN PStr(Str(id) \o Colon \o Upper(locale.v)) ELSE id
    IN  PDict([payload |-> PDict([id |-> PStr(Str(full))]), unzip |-> unzip,
               enums |-> enums])

\* Items.get_value (line 96) is not part of these sources: its value is left opaque
ItemsGetValue(items) == PStr(<<"#">> \o Str(items))

\* get_game_data, lines 87-99
GameDataPayload(version, include_pve_units, request_segment, items, enums) ==
    LET inner == PDict([version |-> PStr(Str(version)),
                        includePveUnits |-> include_pve_units])
    IN  PDict([payload |-> IF Truthy(items)
                           THEN SetItem(inner, "items", PStr(Str(ItemsGetValue(items))))
                           ELSE SetItem(inner, "requestSegment", request_segment),
               enums |-> enums])

\* get_events, lines 241-243
EventsPayload(enums) == PDict([enums |-> enums])

\* get_guild, lines 263-269
GuildPayload(guildId, include_recent_activity, enums) ==
    PDict([payload |-> PDict([guildId |-> guildId,
                              includeRecentGuildActivityInfo |-> include_recent_activity]),
           enums |-> enums])

\* get_guilds_by_name, lines 291-299
GuildsByNamePayload(name, start_index, count, enums) ==
    PDict([payload |-> PDict([filterType |-> PInt(4), startIndex |-> start_index,
                              name |-> name, count |-> count]),
           enums |-> enums])

\* get_guilds_by_criteria, lines 332-347
GuildsByCriteriaPayload(a) ==
    PDict([payload |->
              PDict([filterType |-> PInt(5), startIndex |-> a.start_index,
                     count |-> a.count,
                     searchCriteria |->
                         PDict([minMemberCount |-> a.min_member_count,
                                maxMemberCount |-> a.max_member_count,
                                includeInviteOnly |-> a.include_invite_only,
                                minGuildGalacticPower |-> a.min_galactic_power,
                                maxGuildGalacticPower |-> a.max_galactic_power,
                                recentTbParticipatedIn |-> a.recent_tb])]),
           enums |-> a.enums])

\* get_leaderboard, lines 373-385
MutLeaderboardPayload(leaderboard_type, event_instance_id, group_id, league, division, enums) ==
    LET inner == PDict([leaderboardType |-> leaderboard_type])
        more == IF Truthy(event_instance_id)
                THEN SetItem(SetItem(inner, "eventInstanceId", event_instance_id),
                             "groupId", group_id)
                ELSE IF leaderboard_type = PInt(6)
                THEN SetItem(SetItem(inner, "league", league), "division", division)
                ELSE inner
    IN  PDict([payload |-> more, enums |-> enums])

LeaderboardPayload(leaderboard_type, event_instance_id, group_id, league, division, enums) ==
    LET inner == PDict([leaderboardType |-> leaderboard_type])
        more == IF leaderboard_type = PInt(4)
                THEN SetItem(SetItem(inner, "eventInstanceId", event_instance_id),
                             "groupId", group_id)
                ELSE IF leaderboard_type = PInt(6)
                THEN SetItem(SetItem(inner, "league", league), "division", division)
                ELSE inner
    IN  PDict([payload |-> more, enums |-> enums])

\* get_guild_leaderboard, lines 405-411
GuildLeaderboardPayload(leaderboard_id, count, enums) ==
    PDict([payload |-> PDict([leaderboardId |-> leaderboard_id, count |-> count]),
           enums |-> enums])

-----------------------------------------------------------------------------
(* the endpoint methods: each runs from the call to its first suspension *)

Others == <<ctor, url, session, closed, releases, alive>>

\* get_player
get_player(t, allycode, playerId, enums) ==
    /\ CanCall(t)
    /\ call' = [call EXCEPT ![t] =
                  Post(Begin("get_player", <<allycode, playerId, enums>>), "/player",
                       PlayerPayload(allycode, playerId, enums))]
    /\ UNCHANGED Others

\* get_player_arena
get_player_arena(t, allycode, playerId, player_details_only, enums) ==
    /\ CanCall(t)
    /\ call' = [call EXCEPT ![t] =
                  Post(Begin("get_player_arena",
                             <<allycode, playerId, player_details_only, enums>>),
                       "/playerArena",
                       PlayerArenaPayload(allycode, playerId, player_details_only, enums))]
    /\ UNCHANGED Others

\* get_metadata
get_metadata(t, enums, clientSpecs) ==
    /\ CanCall(t)
    /\ call' = [call EXCEPT ![t] =
                  Post(Begin("get_metadata", <<enums, clientSpecs>>), "/metadata",
                       MetadataPayload(enums, clientSpecs))]
    /\ UNCHANGED Others

\* the get_metadata() call of get_latest_game_version (line 189): default arguments
ResolveVersion(c) ==
    Post([c EXCEPT !.phase = "meta"], "/metadata", MetadataPayload(PBool(FALSE), None))

\* get_latest_game_version
get_latest_game_version(t) ==
    /\ CanCall(t)
    /\ call' = [call EXCEPT ![t] = ResolveVersion(Begin("get_latest_game_version", <<>>))]
    /\ UNCHANGED Others

\* get_localization, lines 212-215: the metadata request goes first when id is falsy
LocalizationStart(c, id, unzip, locale, enums) ==
    IF ~Truthy(id) THEN ResolveVersion(c)
    ELSE Post(c, "/localization", LocalizationPayload(id, unzip, locale, enums))

get_localization(t, id, unzip, locale, enums) ==
    /\ CanCall(t)
    /\ call' = [call EXCEPT ![t] =
                  LocalizationStart(Begin("get_localization", <<id, unzip, locale, enums>>),
                                    id, unzip, locale, enums)]
    /\ UNCHANGED Others

\* get_game_data, lines 82-85
get_game_data(t, version, include_pve_units, request_segment, items, enums) ==
    /\ CanCall(t)
    /\ call' = [call EXCEPT ![t] =
                  LET c == Begin("get_game_data",
                                 <<version, include_pve_units, request_segment, items,
                                   enums>>)
                  IN  IF ~Truthy(version) THEN ResolveVersion(c)
                      ELSE Post(c, "/data",
                                GameDataPayload(version, include_pve_units,
                                                request_segment, items, enums))]
    /\ UNCHANGED Others

\* get_events
get_events(t, enums) ==
    /\ CanCall(t)
    /\ call' = [call EXCEPT ![t] =
                  Post(Begin("get_events", <<enums>>), "/getEvents", EventsPayload(enums))]
    /\ UNCHANGED Others

\* get_guild
get_guild(t, guildId, include_recent_activity, enums) ==
    /\ CanCall(t)
    /\ call' = [call EXCEPT ![t] =
                  Post(Begin("get_guild", <<guildId, include_recent_activity, enums>>),
                       "/guild", GuildPayload(guildId, include_recent_activity, enums))]
    /\ UNCHANGED Others

\* get_guilds_by_name
get_guilds_by_name(t, name, start_index, count, enums) ==
    /\ CanCall(t)
    /\ call' = [call EXCEPT ![t] =
                  Post(Begin("get_guilds_by_name", <<name, start_index, count, enums>>),
                       "/getGuilds", GuildsByNamePayload(name, start_index, count, enums))]
    /\ UNCHANGED Others

\* get_guilds_by_criteria
get_guilds_by_criteria(t, a) ==
    /\ CanCall(t)
    /\ call' = [call EXCEPT ![t] =
                  Post(Begin("get_guilds_by_criteria", <<a>>), "/getGuilds",
                       GuildsByCriteriaPayload(a))]
    /\ UNCHANGED Others

\* get_leaderboard
get_leaderboard(t, leaderboard_type, event_instance_id, group_id, league, division, enums) ==
    /\ CanCall(t)
    /\ call' = [call EXCEPT ![t] =
                  Post(Begin("get_leaderboard",
                             <<leaderboard_type, event_instance_id, group_id, league,
                               division, enums>>),
                       "/getLeaderboard",
                       LeaderboardPayload(leaderboard_type, event_instance_id, group_id,
                                          league, division, enums))]
    /\ UNCHANGED Others

\* get_guild_leaderboard
get_guild_leaderboard(t, leaderboard_id, count, enums) ==
    /\ CanCall(t)
    /\ call' = [call EXCEPT ![t] =
                  Post(Begin("get_guild_leaderboard", <<leaderboard_id, count, enums>>),
                       "/getGuildLeaderboard",
                       GuildLeaderboardPayload(leaderboard_id, count, enums))]
    /\ UNCHANGED Others

\* get_enums, lines 422-423: session.get outside any try
get_enums(t) ==
    /\ CanCall(t)
    /\ call' = [call EXCEPT ![t] =
                  SessionRequest(Begin("get_enums", <<>>), Request("GET", "/enums", None))]
    /\ UNCHANGED Others

-----------------------------------------------------------------------------
(* a response, or a failure, reaches a suspended call *)

Response(err, body) == [err |-> err, body |-> body]

\* lines 190-194: the two version fields of the metadata
LatestVersion(metadata) ==
    IF metadata.t # "dict" THEN [err |-> "TypeError", v |-> None]
    ELSE IF ~(HasKey(metadata, "latestGamedataVersion")
              /\ HasKey(metadata, "latestLocalizationBundleVersion"))
    THEN [err |-> "KeyError", v |-> None]
    ELSE [err |-> "",
          v |-> PDict([game |-> metadata.v.latestGamedataVersion,
                       localization |-> metadata.v.latestLocalizationBundleVersion])]

\* lines 85-101 and 215-227: the real request, with the version resolved
MutResolved(c, version) ==
    IF c.m = "get_localization"
    THEN Post(c, "/localization",
              LocalizationPayload(version.v.game, c.args[2], c.args[3], c.args[4]))
    ELSE Post(c, "/data",
              GameDataPayload(version.v.game, c.args[2], c.args[3], c.args[4],
                              c.args[5]))

Resolved(c, version) ==
    IF c.m = "get_localization"
    THEN Post(c, "/localization",
              LocalizationPayload(version.v.localization, c.args[2], c.args[3], c.args[4]))
    ELSE Post(c, "/data",
              GameDataPayload(version.v.game, c.args[2], c.args[3], c.args[4],
                              c.args[5]))

\* the coroutine of c resumes with the decoded body
Resume(c, body) ==
    IF c.phase = "meta"
    THEN LET version == LatestVersion(body)
         IN  IF version.err # "" THEN Raise(c, version.err)
             ELSE IF c.m = "get_latest_game_version" THEN Return(c, version.v)
             ELSE Resolved([c EXCEPT !.phase = "real"], version.v)
    ELSE Return(c, body)

\* lines 58-62 and 423-425: the request ends, with a decoded body or with an exception
Recv(t, r) ==
    /\ call[t].pc = "await"
    /\ LET c == [call[t] EXCEPT !.trace = Append(@, Received(r))]
       IN  call' = [call EXCEPT ![t] =
                      IF r.err = "" THEN Resume(c, r.body)
                      ELSE IF c.m = "get_enums" THEN Raise(c, r.err)
                      ELSE PostExcept(c, r.err)]
    /\ UNCHANGED Others

-----------------------------------------------------------------------------
(* close and __del__ *)

\* line 431: the guard of close
MutCloseGuard == TRUE

CloseGuard == session # NoneRef

\* close up to its suspension in ClientSession.close() (lines 431-432); closing a
\* ClientSession that is closed already releases nothing
close(t) ==
    /\ CanCall(t)
    /\ LET c == Begin("close", <<>>)
       IN  IF CloseGuard
           THEN IF session = NoneRef  \* None.close(): the guard rules it out
                THEN /\ call' = [call EXCEPT ![t] = Raise(c, "AttributeError")]
                     /\ UNCHANGED <<closed, releases>>
                ELSE /\ call' = [call EXCEPT ![t] =
                                   [c EXCEPT !.pc = "closing", !.invoked = TRUE]]
                     /\ closed' = TRUE
                     /\ releases' = IF closed THEN releases ELSE releases + 1
           ELSE /\ call' = [call EXCEPT ![t] = Return(c, None)]
                /\ UNCHANGED <<closed, releases>>
    /\ UNCHANGED <<ctor, url, session, alive>>

\* line 433, after ClientSession.close() returned
CloseResume(t) ==
    /\ call[t].pc = "closing"
    /\ session' = NoneRef
    /\ call' = [call EXCEPT ![t] = Return(call[t], None)]
    /\ UNCHANGED <<ctor, url, closed, releases, alive>>

\* __del__: runs once nothing refers to the client any more, so no coroutine of it is
\* suspended; when the session is still open, close() is run to its end
Del ==
    /\ ctor.status = "ok"
    /\ alive
    /\ \A t \in Tasks : call[t].pc \in {"idle", "done"}
    /\ alive' = FALSE
    /\ IF session # NoneRef /\ ~closed
       THEN /\ closed' = TRUE
            /\ releases' = releases + 1
            /\ session' = NoneRef
       ELSE UNCHANGED <<session, closed, releases>>
    /\ UNCHANGED <<ctor, url, call>>

-----------------------------------------------------------------------------
(* constructor arguments *)

UrlPrefixes == {<<>>, Http \o SchemeSep, Https \o SchemeSep, <<"H", "t", "t", "p", "S">> \o SchemeSep,
                <<"r", "e", "d", "i", "s">> \o SchemeSep, <<"/", "/">>, Http \o Colon}
UrlHosts == {<<"h">>, <<"H", ".", "i", "o">>}
UrlPorts == {<<>>, <<":">>, <<":", "8">>, <<":", "4", "4", "3">>, <<":", "x">>,
             <<":", "6", "5", "5", "3", "6">>}
UrlPaths == {<<>>, <<"/", "a">>}
UrlTails == {<<>>, <<"/">>, <<"/", "/">>}

\* URL strings: an optional scheme prefix, an authority, a path, trailing slashes
UrlRegular ==
    {pre \o h \o p \o path \o tail :
        pre \in UrlPrefixes, h \in UrlHosts, p \in UrlPorts, path \in UrlPaths,
        tail \in UrlTails}

\* and the odd ones: nothing but a path, user-info, port 0
UrlOdd ==
    {<<>>, <<"/">>, <<"/", "a">>} \cup
    {pre \o rest : pre \in UrlPrefixes,
                   rest \in {<<"u", "s", "e", "r", "@", "H", ".", "i", "o", ":", "8">>,
                             <<"H", ".", "i", "o", ":", "0">>,
                             <<"H", ".", "i", "o", ":", "0", "0", "8", "0", "/">>}}

UrlStrings == UrlRegular \cup UrlOdd

HostArgs == {Omitted, None, PStr(<<>>), PStr(<<"h">>), PStr(<<"e", "x", ".", "c", "o", "m">>)}
PortArgs == {Omitted, None, PInt(0), PInt(80), PInt(443), PInt(3000), PInt(8080)}
UrlArgs == {Omitted} \cup {PStr(u) : u \in UrlStrings}

CtorArgs == [url : UrlArgs, host : HostArgs, port : PortArgs]

InitNew ==
    /\ ctor \in [args : CtorArgs, status : {"new"}]
    /\ url = Unset
    /\ session = Unset
    /\ closed = FALSE
    /\ releases = 0
    /\ alive = TRUE
    /\ call = [t \in Tasks |-> NoCall]

NextInit == ComlinkInit

SpecInit == InitNew /\ [][NextInit]_vars

-----------------------------------------------------------------------------
(* a constructed client and its callers *)

F == PBool(FALSE)
T == PBool(TRUE)
V1 == PStr(<<"v", "1">>)
V2 == PStr(<<"v", "2">>)
V9 == PStr(<<"v", "9">>)
Empty == PStr(<<>>)
P1 == PStr(<<"p", "1">>)
E1 == PStr(<<"E", "1">>)
G1 == PStr(<<"G", "1">>)
En == PStr(<<"e", "n", "g", "_", "u", "s">>)

\* get_guilds_by_criteria with the defaults of lines 305-313
CriteriaDefaults ==
    [start_index |-> PInt(0), count |-> PInt(10), min_member_count |-> PInt(1),
     max_member_count |-> PInt(50), include_invite_only |-> F,
     min_galactic_power |-> PInt(1), max_galactic_power |-> PInt(500000000),
     recent_tb |-> PList(<<>>), enums |-> F]

Metadata(game, localization) ==
    PDict([latestGamedataVersion |-> game, latestLocalizationBundleVersion |-> localization])
OtherBody == PDict([name |-> P1])

\* what concurrent callers pass, and what the service answers them
FewArgs ==
    [player |-> {<<PInt(7), None, F>>},
     arena |-> {<<PInt(7), None, F, F>>},
     metadata |-> {<<F, None>>},
     localization |-> {<<None, F, None, F>>},
     data |-> {<<None, F, PInt(0), None, F>>},
     events |-> {<<F>>},
     guild |-> {<<G1, F, F>>},
     byname |-> {<<P1, PInt(0), PInt(10), F>>},
     criteria |-> {CriteriaDefaults},
     leaderboard |-> {<<PInt(4), E1, G1, None, None, F>>},
     guildboard |-> {<<PList(<<>>), PInt(200), F>>},
     responses |-> {Response("", Metadata(V1, V2)), Response("ClientError", None)}]

\* what a single caller passes, and what the service answers
ManyArgs ==
    [player |-> {None, PInt(0), PInt(7), Empty, PStr(<<"7">>)} \X {None, Empty, P1}
                \X {F, T},
     arena |-> {None, PInt(0), PInt(7), Empty, PStr(<<"7">>)} \X {None, Empty, P1}
               \X {F, T} \X {F},
     metadata |-> {F, T} \X {None, PDict(<<>>), PDict([platform |-> P1]), P1},
     localization |-> {None, Empty, V9} \X {F, T} \X {None, Empty, En} \X {F, T},
     data |-> {None, Empty, V9} \X {F, T} \X {PInt(0), PInt(2)} \X {None} \X {F, T},
     events |-> {<<F>>, <<T>>},
     guild |-> {G1} \X {F, T} \X {F, T},
     byname |-> {P1} \X {PInt(0)} \X {PInt(10), PInt(3)} \X {F, T},
     criteria |-> {CriteriaDefaults, [CriteriaDefaults EXCEPT !.enums = T]},
     leaderboard |-> {PInt(0), PInt(3), PInt(4), PInt(6)} \X {None, E1} \X {None, G1}
                     \X {None, PInt(20)} \X {None, PInt(5)} \X {F, T},
     guildboard |-> {PList(<<>>)} \X {PInt(200), PInt(5)} \X {F, T},
     responses |-> {Response("", Metadata(V1, V2)), Response("", Metadata(V2, V9)),
                    Response("", OtherBody), Response("", PList(<<>>)),
                    Response("ClientError", None), Response("ContentTypeError", None)}]

DefaultArgs == [url |-> Omitted, host |-> Omitted, port |-> Omitted]

\* the client right after Comlink() returned
Init ==
    /\ ctor = [args |-> DefaultArgs, status |-> "ok"]
    /\ url = BaseUrl(DefaultArgs).url
    /\ session = Handle
    /\ closed = FALSE
    /\ releases = 0
    /\ alive = TRUE
    /\ call = [t \in Tasks |-> NoCall]

\* one step of task t, its arguments and the responses drawn from D
Step(t, D) ==
    \/ \E a \in D.player : get_player(t, a[1], a[2], a[3])
    \/ \E a \in D.arena : get_player_arena(t, a[1], a[2], a[3], a[4])
    \/ \E a \in D.metadata : get_metadata(t, a[1], a[2])
    \/ get_latest_game_version(t)
    \/ \E a \in D.localization : get_localization(t, a[1], a[2], a[3], a[4])
    \/ \E a \in D.data : get_game_data(t, a[1], a[2], a[3], a[4], a[5])
    \/ \E a \in D.events : get_events(t, a[1])
    \/ \E a \in D.guild : get_guild(t, a[1], a[2], a[3])
    \/ \E a \in D.byname : get_guilds_by_name(t, a[1], a[2], a[3], a[4])
    \/ \E a \in D.criteria : get_guilds_by_criteria(t, a)
    \/ \E a \in D.leaderboard : get_leaderboard(t, a[1], a[2], a[3], a[4], a[5], a[6])
    \/ \E a \in D.guildboard : get_guild_leaderboard(t, a[1], a[2], a[3])
    \/ get_enums(t)
    \/ \E r \in D.responses : Recv(t, r)
    \/ close(t)
    \/ CloseResume(t)

\* callers on every task, interleaved at the suspension points
Next == (\E t \in Tasks : Step(t, FewArgs)) \/ Del

Spec == Init /\ [][Next]_vars

\* a single caller, with every argument shape
NextSeq == Step(1, ManyArgs) \/ Del

SpecSeq == Init /\ [][NextSeq]_vars

-----------------------------------------------------------------------------
(* the constructor's claims, under SpecInit *)

Constructed == ctor.status # "new"
ArgUrl == Bind(ctor.args.url, PStr(DefaultUrl)).v
ArgHost == Bind(ctor.args.host, None)
FromUrlString == ~Truthy(ArgHost)
NoRequestYet == \A t \in Tasks : call[t].pc = "idle"

\* RFC 3986, 3.1: a URL has a scheme when it starts with a letter followed by
\* letters, digits, "+", "-" or "." up to a ":"
HasScheme(u) ==
    \E i \in 2..Len(u) :
        /\ u[i] = ":"
        /\ IsAlpha(u[1])
        /\ \A j \in 1..(i - 1) : u[j] \in SchemeChars

\* C4: when the client is constructed from a URL string (no host supplied) and the
\* string lacks a scheme, construction fails with ValueError, the invalid-configuration
\* error: neither a base URL nor a session results and no request has been made.
C4_SchemelessFails ==
    (Constructed /\ FromUrlString /\ ~HasScheme(ArgUrl))
        => /\ ctor.status = "ValueError"
           /\ url = Unset
           /\ session = Unset
           /\ NoRequestYet

C4_Witness ==
    /\ Constructed /\ FromUrlString
    /\ ArgUrl = <<"h", "/", "a">>
    /\ ctor.status = "ValueError"

\* the port a host-based base URL must carry
SuppliedPort == ctor.args.port.t = "int"
ExpectedScheme == IF ctor.args.port = PInt(443) THEN Https ELSE Http

\* C5 as stated: with a host, the base URL is scheme://host:port from host and port
\* alone, https exactly for port 443, the port being the supplied one or, when none
\* is supplied, 443 for https and 80 for http.
C5_AsStated ==
    (Constructed /\ Truthy(ArgHost))
        => /\ url = ExpectedScheme \o SchemeSep \o ArgHost.v \o Colon
                    \o (IF SuppliedPort THEN StrOfNat(ctor.args.port.v)
                        ELSE IF ExpectedScheme = Https THEN <<"4", "4", "3">>
                        ELSE <<"8", "0">>)

\* C5 amended: with a non-empty host, the base URL is scheme://host:port from host and
\* port alone, whatever the url argument; https exactly for port 443; the port is the
\* supplied one when it is a non-zero int, 3000 when the port argument is omitted, and
\* 80 when it is None or 0; the result does not end in a slash.
C5_HostPrecedence ==
    (Constructed /\ Truthy(ArgHost))
        => /\ url = ExpectedScheme \o SchemeSep \o ArgHost.v \o Colon
                    \o (IF SuppliedPort /\ ctor.args.port.v # 0
                        THEN StrOfNat(ctor.args.port.v)
                        ELSE IF ctor.args.port.t = "omitted" THEN <<"3", "0", "0", "0">>
                        ELSE <<"8", "0">>)
           /\ url[Len(url)] # "/"

C5_Witness ==
    /\ Constructed /\ Truthy(ArgHost)
    /\ ctor.args.port.t = "omitted"
    /\ ~HasScheme(ArgUrl)
    /\ url = Http \o SchemeSep \o ArgHost.v \o Colon \o <<"3", "0", "0", "0">>

\* what the URL string says, read with the URL parser
InParsed == UrlParse(RStrip(ArgUrl, "/"))
InPort == Port(InParsed).v
OutParsed == UrlParse(url)
BuiltFromUrl == Constructed /\ FromUrlString /\ ctor.status = "ok"

\* C6 as stated: a base URL built from a URL string is scheme://host:port, with the
\* URL's own port when it has one and else 443 for https and 80 for http.
C6_AsStated ==
    BuiltFromUrl
        => /\ IsOrigin(url)
           /\ url[Len(url)] # "/"
           /\ Port(OutParsed).v # None
           /\ InPort # None => Port(OutParsed).v = InPort
           /\ (InPort = None /\ InParsed.scheme = Https) => Port(OutParsed).v = PInt(443)
           /\ (InPort = None /\ InParsed.scheme = Http) => Port(OutParsed).v = PInt(80)

-----------------------------------------------------------------------------
(* the claims about a constructed client *)

IsSend(e) == e.k = "send"
IsRecv(e) == e.k = "recv"
Sends(c) == SelectSeq(c.trace, IsSend)
RequestMethods ==
    {"get_player", "get_player_arena", "get_metadata", "get_latest_game_version",
     "get_localization", "get_game_data", "get_events", "get_guild",
     "get_guilds_by_name", "get_guilds_by_criteria", "get_leaderboard",
     "get_guild_leaderboard", "get_enums"}

\* C1: a request method called after close() has completed (self.session is None when
\* the call starts) ends at once with the error raised for the missing session,
\* AttributeError, and sends no request.
C1_UseAfterClose ==
    \A t \in Tasks :
        (call[t].m \in RequestMethods /\ call[t].atStart = NoneRef)
            => /\ call[t].pc = "done"
               /\ call[t].result.err = "AttributeError"
               /\ call[t].trace = <<>>

C1_Witness ==
    \E t, u \in Tasks :
        /\ call[u].m = "close" /\ call[u].pc = "done" /\ call[u].invoked
        /\ call[t].m = "get_localization" /\ call[t].atStart = NoneRef
        /\ call[t].result.err = "AttributeError"

\* C2: every close() call returns without error and leaves self.session None; the
\* connection context is released once, by the first call, however many calls follow
\* or overlap; a close() called after one has completed finds no session and does not
\* touch it, and neither does __del__.
C2_CloseIdempotent ==
    /\ \A t \in Tasks :
          (call[t].m = "close" /\ call[t].pc = "done")
              => /\ call[t].result = [err |-> "", v |-> None]
                 /\ session = NoneRef
                 /\ closed
                 /\ releases = 1
                 /\ call[t].invoked <=> call[t].atStart = Handle
    /\ releases <= 1
    /\ session = NoneRef => releases = 1
    /\ ~alive => session = NoneRef

C2_Witness ==
    \E t, u \in Tasks :
        /\ call[t].m = "close" /\ call[t].pc = "done" /\ call[t].invoked
        /\ call[u].m = "close" /\ call[u].pc = "done" /\ ~call[u].invoked
        /\ call[u].atStart = NoneRef
        /\ releases = 1
        /\ ~alive

\* the call of the single caller
Only == call[1]
Succeeded(c) == c.pc = "done" /\ c.result.err = ""
\* the version a two-step call puts in its real request: the text of the metadata
\* field, followed by ":" and the upper-cased locale when get_localization has one
Versioned(c, version) ==
    IF c.m = "get_localization" /\ Truthy(c.args[3])
    THEN Str(version) \o Colon \o Upper(c.args[3].v)
    ELSE Str(version)
RealEndpoint(c) == IF c.m = "get_localization" THEN "/localization" ELSE "/data"
SentVersion(c, r) ==
    IF c.m = "get_localization" THEN r.json.v.payload.v.id.v
    ELSE r.json.v.payload.v.version.v

\* C3: get_localization and get_game_data without an id/version (None or empty) send
\* POST /metadata first and the real request only after the metadata response has come
\* in, with the version taken from that response (latestLocalizationBundleVersion for
\* get_localization, latestGamedataVersion for get_game_data); they send two requests
\* in all when they succeed and never more.  With an id/version they send the real
\* request alone and never /metadata.
C3_TwoStep ==
    LET c == Only
        s == Sends(c)
    IN  c.m \in {"get_localization", "get_game_data"} =>
          IF Truthy(c.args[1])
          THEN /\ Len(s) <= 1
               /\ \A i \in DOMAIN s :
                     /\ s[i].x = Request("POST", RealEndpoint(c), s[i].x.json)
                     /\ SentVersion(c, s[i].x) = Versioned(c, c.args[1])
               /\ Succeeded(c) => Len(s) = 1
          ELSE /\ Len(s) <= 2
               /\ Len(s) >= 1 =>
                     /\ c.trace[1] = s[1]
                     /\ s[1].x.verb = "POST" /\ s[1].x.endpoint = "/metadata"
               /\ Len(s) = 2 =>
                     /\ Len(c.trace) >= 3
                     /\ IsRecv(c.trace[2]) /\ c.trace[2].x.err = ""
                     /\ c.trace[3] = s[2]
                     /\ s[2].x = Request("POST", RealEndpoint(c), s[2].x.json)
                     /\ SentVersion(c, s[2].x) =
                           Versioned(c, IF c.m = "get_localization"
                                        THEN c.trace[2].x.body.v.latestLocalizationBundleVersion
                                        ELSE c.trace[2].x.body.v.latestGamedataVersion)
               /\ Succeeded(c) => Len(s) = 2

C3_Witness ==
    /\ Only.m = "get_localization" /\ Only.args[1] = None /\ Only.args[3] = En
    /\ Succeeded(Only)
    /\ Len(Sends(Only)) = 2
    /\ Sends(Only)[2].x.json.v.payload.v.id.v = <<"v", "2", ":", "E", "N", "G", "_", "U", "S">>

\* C7: a failure of a request (of the transport, of the decoding, or of reading the
\* version fields of the metadata) ends the call with that error: nothing is sent
\* after it, so the request is not repeated and the second request of a two-step call
\* is never made.  Every request is answered at most once.
C7_NoRetry ==
    \A t \in Tasks :
        LET c == call[t]
        IN  /\ \A i \in DOMAIN c.trace :
                  /\ IsSend(c.trace[i]) <=> i % 2 = 1
                  /\ (IsRecv(c.trace[i]) /\ c.trace[i].x.err # "")
                        => /\ i = Len(c.trace)
                           /\ c.pc = "done"
                           /\ c.result.err = c.trace[i].x.err
            /\ (c.pc = "done" /\ c.result.err \in {"KeyError", "TypeError"})
                  => Len(c.trace) = 2 /\ c.trace[1].x.endpoint = "/metadata"

C7_Witness ==
    /\ Only.m = "get_game_data" /\ Only.args[1] = None
    /\ Only.pc = "done"
    /\ Only.result.err = "ContentTypeError"
    /\ Len(Only.trace) = 2
    /\ Only.trace[1].x.endpoint = "/metadata"

Keys(d) == DOMAIN d.v

\* C8: the payload of get_player carries playerId, and no allyCode, when playerId is
\* given (not None, not empty), and allyCode only when playerId is not given and
\* allycode is; the payload of get_player_arena carries allyCode, and no playerId, when
\* allycode is given (not None, not empty, not 0), and playerId only when allycode is
\* not given and playerId is; no payload carries both.
C8_PlayerExclusive ==
    LET c == Only
        s == Sends(c)
    IN  (c.m \in {"get_player", "get_player_arena"} /\ s # <<>>) =>
          LET inner == s[1].x.json.v.payload
              allycode == c.args[1]
              playerId == c.args[2]
              first == IF c.m = "get_player" THEN playerId ELSE allycode
              second == IF c.m = "get_player" THEN allycode ELSE playerId
              firstKey == IF c.m = "get_player" THEN "playerId" ELSE "allyCode"
              secondKey == IF c.m = "get_player" THEN "allyCode" ELSE "playerId"
          IN  /\ ~({"playerId", "allyCode"} \subseteq Keys(inner))
              /\ Truthy(first) => /\ firstKey \in Keys(inner)
                                  /\ secondKey \notin Keys(inner)
                                  /\ inner.v[firstKey] = PStr(Str(first))
              /\ (~Truthy(first) /\ Truthy(second))
                    => /\ secondKey \in Keys(inner)
                       /\ firstKey \notin Keys(inner)
                       /\ inner.v[secondKey] = PStr(Str(second))
              /\ (~Truthy(first) /\ ~Truthy(second))
                    => Keys(inner) \cap {"playerId", "allyCode"} = {}

C8_Witness ==
    /\ Only.m = "get_player" /\ Only.args[1] = PInt(7) /\ Only.args[2] = P1
    /\ Sends(Only) # <<>>
    /\ Keys(Sends(Only)[1].x.json.v.payload) = {"playerId"}

\* C9: get_leaderboard sends one POST to /getLeaderboard; its payload carries
\* leaderboardType and the enums flag, with eventInstanceId and groupId for type 4,
\* league and division for type 6, and none of the four for another type, whatever was
\* passed for them.
C9_Leaderboard ==
    LET c == Only
        s == Sends(c)
    IN  c.m = "get_leaderboard" =>
          /\ Len(s) <= 1
          /\ (c.atStart = Handle /\ ~closed) => Len(s) = 1
          /\ \A i \in DOMAIN s :
                LET json == s[i].x.json
                    inner == json.v.payload
                IN  /\ s[i].x.verb = "POST" /\ s[i].x.endpoint = "/getLeaderboard"
                    /\ Keys(json) = {"payload", "enums"}
                    /\ json.v.enums = c.args[6]
                    /\ inner.v.leaderboardType = c.args[1]
                    /\ c.args[1] = PInt(4) =>
                          /\ Keys(inner) = {"leaderboardType", "eventInstanceId", "groupId"}
                          /\ inner.v.eventInstanceId = c.args[2]
                          /\ inner.v.groupId = c.args[3]
                    /\ c.args[1] = PInt(6) =>
                          /\ Keys(inner) = {"leaderboardType", "league", "division"}
                          /\ inner.v.league = c.args[4]
                          /\ inner.v.division = c.args[5]
                    /\ c.args[1] \notin {PInt(4), PInt(6)} =>
                          Keys(inner) = {"leaderboardType"}

C9_Witness ==
    /\ Only.m = "get_leaderboard"
    /\ Sends(Only) # <<>>
    /\ Sends(Only)[1].x.json =
          PDict([payload |-> PDict([leaderboardType |-> PInt(4), eventInstanceId |-> E1,
                                    groupId |-> G1]),
                 enums |-> F])
    /\ Only.args[4] = PInt(20)

\* the request a method makes first, from its own arguments
FirstRequest(c) ==
    LET a == c.args
    IN  CASE c.m = "get_player" ->
               Request("POST", "/player", PlayerPayload(a[1], a[2], a[3]))
          [] c.m = "get_player_arena" ->
               Request("POST", "/playerArena", PlayerArenaPayload(a[1], a[2], a[3], a[4]))
          [] c.m = "get_metadata" ->
               Request("POST", "/metadata", MetadataPayload(a[1], a[2]))
          [] c.m = "get_events" -> Request("POST", "/getEvents", EventsPayload(a[1]))
          [] c.m = "get_guild" -> Request("POST", "/guild", GuildPayload(a[1], a[2], a[3]))
          [] c.m = "get_guilds_by_name" ->
               Request("POST", "/getGuilds", GuildsByNamePayload(a[1], a[2], a[3], a[4]))
          [] c.m = "get_guilds_by_criteria" ->
               Request("POST", "/getGuilds", GuildsByCriteriaPayload(a[1]))
          [] c.m = "get_leaderboard" ->
               Request("POST", "/getLeaderboard",
                       LeaderboardPayload(a[1], a[2], a[3], a[4], a[5], a[6]))
          [] c.m = "get_guild_leaderboard" ->
               Request("POST", "/getGuildLeaderboard",
                       GuildLeaderboardPayload(a[1], a[2], a[3]))
          [] c.m = "get_enums" -> Request("GET", "/enums", None)
          [] c.m = "get_localization" /\ Truthy(a[1]) ->
               Request("POST", "/localization", LocalizationPayload(a[1], a[2], a[3], a[4]))
          [] c.m = "get_game_data" /\ Truthy(a[1]) ->
               Request("POST", "/data", GameDataPayload(a[1], a[2], a[3], a[4], a[5]))
          [] OTHER -> Request("POST", "/metadata", PDict([enums |-> F]))

\* the request a two-step method makes second, from its arguments and the metadata it
\* received itself
SecondRequest(c) ==
    LET a == c.args
        metadata == c.trace[2].x.body.v
    IN  IF c.m = "get_localization"
        THEN Request("POST", "/localization",
                     LocalizationPayload(metadata.latestLocalizationBundleVersion,
                                         a[2], a[3], a[4]))
        ELSE Request("POST", "/data",
                     GameDataPayload(metadata.latestGamedataVersion, a[2], a[3], a[4],
                                     a[5]))

\* what a call does is what it does alone: its requests follow from its arguments and
\* from the responses it received, and it returns what it received
Alone(c) ==
    LET s == Sends(c)
        n == Len(c.trace)
    IN  /\ Len(s) <= 2
        /\ Len(s) >= 1 => s[1].x = FirstRequest(c)
        /\ Len(s) = 2 => /\ c.m \in {"get_localization", "get_game_data"}
                         /\ s[2].x = SecondRequest(c)
        /\ Succeeded(c) =>
              /\ n >= 2 /\ IsRecv(c.trace[n])
              /\ c.result.v = IF c.m = "get_latest_game_version"
                              THEN LatestVersion(c.trace[n].x.body).v
                              ELSE c.trace[n].x.body

\* a task that is not inside a call sends at once when it makes one on the open
\* client, and a suspended call can take its response, whatever the other tasks do
NeverWaits(t) ==
    /\ (alive /\ session = Handle /\ ~closed /\ call[t].pc \in {"idle", "done"})
          => /\ ENABLED (get_events(t, F) /\ call'[t].pc = "await")
             /\ ENABLED (get_enums(t) /\ call'[t].pc = "await")
             /\ ENABLED (get_localization(t, None, F, None, F) /\ call'[t].pc = "await")
    /\ call[t].pc = "await" => ENABLED Recv(t, Response("", Metadata(V1, V2)))

\* no request touches the client: the base URL stays what the constructor made it, and
\* while nothing has released the session (no close(), no __del__) the handle is the
\* open session, however many requests have run
ClientUntouched ==
    /\ url = BaseUrl(ctor.args).url
    /\ session \in {Handle, NoneRef}
    /\ releases = 0 => session = Handle /\ ~closed /\ alive
    /\ \A t \in Tasks : call[t].m = "close" => releases = 1

\* C10: calls running concurrently on one client are independent: under every
\* interleaving a call sends the requests its own arguments and its own responses
\* determine and returns its own response; a call never waits for another call before
\* it sends; no request method changes the base URL or the session handle, which only
\* close() (and __del__) clears.
C10_Independent ==
    /\ \A t \in Tasks : call[t].m \in RequestMethods => Alone(call[t])
    /\ \A t \in Tasks : NeverWaits(t)
    /\ ClientUntouched

C10_Witness ==
    \E t, u \in Tasks :
        /\ t # u
        /\ call[t].m = "get_localization" /\ call[t].pc = "await" /\ Len(call[t].trace) = 3
        /\ call[u].m = "get_player" /\ Succeeded(call[u])
        /\ call[u].atStart = Handle
        /\ session = Handle

====
